---- MODULE Spec2Model ----
\* Model of the architecture-conformance checker (lib/fs.py, lib/puml.py,
\* lib/code.py, lib/arch.py).  One run of ArchAnalyzer.analyze is a pipeline:
\* scan the file system, bind the diagram, expand the rules, parse every
\* translation unit, build the matrices, write the reports.
EXTENDS Integers, Sequences, FiniteSets, Bags, TLC

VARIABLES
    pc,           \* position of the run inside ArchAnalyzer.analyze
    disk,         \* the directory tree under base_dir: the set of existing paths
    order,        \* the order in which os.scandir lists a directory
    fs_data,      \* FSData: index, file_index, root
    puml_in,      \* what PumlTree.parse_puml returns: the node tree and the rels
    puml_nodes,   \* the PumlNode objects (fs_ids is assigned by the binder)
    puml_data,    \* PumlData: var_index, fs_groups, rules
    compdb,       \* the translation units the front-end hands over
    nested_deps,  \* per translation unit: the list its worker returned
    code_deps,    \* the flattened list of CodeDeps
    arch,         \* the matrices and the list of violations of analyze
    reports,      \* the two CSV files, line by line
    error         \* what ended the run early, or None

vars == <<pc, disk, order, fs_data, puml_in, puml_nodes, puml_data, compdb,
          nested_deps, code_deps, arch, reports, error>>

\* Python's None, and a value that is not None: an optional value is the
\* empty tuple or the tuple of the value.
None == << >>
Some(x) == <<x>>
Val(o) == o[1]

-----------------------------------------------------------------------------
\* Strings and paths.  A file name is the sequence of its tokens (a stem and
\* its dotted suffixes), so that name + ext is concatenation and endswith looks
\* at the last token; a path is the sequence of its components.

Name(stem) == <<stem>>
NameExt(stem, ext) == <<stem, ext>>

\* str.lower on a token.
Lower(tok) ==
    CASE tok = ".CPP" -> ".cpp"
      [] tok = ".H" -> ".h"
      [] OTHER -> tok

\* FSScanner.file_extensions and FSScanner.excludes.
FSFileExtensions == {".c", ".cc", ".cpp", ".cxx", ".h", ".hpp"}

\* Tokens of the model's alphabet that begin with "build" / contain ".git".
BuildTokens == {"build", "builder"}
GitTokens == {".git", ".github"}

\* any(exclude in entry.path for exclude in ["/build", ".git", "/tools/"])
PathExcluded(path) ==
    \/ \E i \in 1..Len(path) : path[i][1] \in BuildTokens
    \/ \E i \in 1..Len(path) : \E k \in 1..Len(path[i]) : path[i][k] \in GitTokens
    \/ \E i \in 1..(Len(path) - 1) : path[i] = Name("tools")

\* The directory the analysis runs on (an absolute, canonical path).
BaseDir == << Name("proj") >>

Dotdot == Name("..")
Dot == Name(".")

\* os.path.abspath: lexical normalisation, symbolic links are not resolved.
RECURSIVE Norm(_, _)
Norm(p, acc) ==
    IF p = <<>> THEN acc
    ELSE IF Head(p) = Dot THEN Norm(Tail(p), acc)
    ELSE IF Head(p) = Dotdot
         THEN Norm(Tail(p), IF acc = <<>> THEN acc ELSE SubSeq(acc, 1, Len(acc) - 1))
    ELSE Norm(Tail(p), Append(acc, Head(p)))

Abspath(p) == Norm(p, <<>>)

\* os.path.dirname
Dirname(p) == IF p = <<>> THEN p ELSE SubSeq(p, 1, Len(p) - 1)

-----------------------------------------------------------------------------
\* The file system the run sees.

WorldOrder == <<
    BaseDir \o << Name("ui") >>,
    BaseDir \o << Name("ui"), NameExt("x", ".cpp") >>,
    BaseDir \o << Name("ui"), NameExt("z", ".cxx") >>,
    BaseDir \o << Name("core") >>,
    BaseDir \o << Name("core"), NameExt("y", ".h") >>,
    BaseDir \o << NameExt("a", ".cpp") >>,
    BaseDir \o << NameExt("a", ".h") >>,
    BaseDir \o << NameExt("M", ".CPP") >>,
    BaseDir \o << NameExt("notes", ".txt") >>,
    BaseDir \o << Name("build") >>,
    BaseDir \o << Name("build"), NameExt("g", ".c") >>,
    BaseDir \o << Name("tools") >>,
    BaseDir \o << Name("tools"), NameExt("t", ".c") >>,
    BaseDir \o << Name("lnk") >>
>>

WorldPaths == {WorldOrder[i] : i \in 1..Len(WorldOrder)}

\* The kind of a path of the world: a directory, a regular file or a
\* symbolic link.
LinkPath == BaseDir \o << Name("lnk") >>
LinkTarget == BaseDir \o << Name("core") >>

WorldKind(p) ==
    IF p = LinkPath THEN "link"
    ELSE IF p[Len(p)] \in {Name("ui"), Name("core"), Name("build"), Name("tools"),
                           Name("proj")}
         THEN "dir"
    ELSE "file"

\* A directory tree: the base directory, every parent of a path it holds, and
\* the target of the link it holds.
IsDisk(d) ==
    /\ BaseDir \in d
    /\ \A p \in d : p = BaseDir \/ Dirname(p) \in d
    /\ LinkPath \in d => LinkTarget \in d

Exists(p) == p \in disk

\* os.path.realpath: resolves symbolic links component by component;
\* a path that does not exist is normalised only.
RECURSIVE Resolve(_, _)
Resolve(p, acc) ==
    IF p = <<>> THEN acc
    ELSE IF Head(p) = Dot THEN Resolve(Tail(p), acc)
    ELSE IF Head(p) = Dotdot
         THEN Resolve(Tail(p), IF acc = <<>> THEN acc ELSE SubSeq(acc, 1, Len(acc) - 1))
    ELSE LET cand == Append(acc, Head(p)) IN
         IF Exists(cand) /\ WorldKind(cand) = "link"
         THEN Resolve(Tail(p), LinkTarget)
         ELSE Resolve(Tail(p), cand)

Realpath(p) == Resolve(p, <<>>)

\* os.DirEntry.is_dir(): follows symbolic links.
IsDir(p) == LET r == Realpath(p) IN Exists(r) /\ WorldKind(r) = "dir"

Reverse(s) == [i \in 1..Len(s) |-> s[Len(s) + 1 - i]]

\* os.scandir(cur_dir): the entries of the directory, in the order of the
\* underlying enumeration.
ScanDir(cur_dir) ==
    LET real == Realpath(cur_dir)
        Child(q) == Exists(q) /\ Len(q) = Len(real) + 1 /\ Dirname(q) = real
        listed == SelectSeq(WorldOrder, Child)
        names == IF order = "asc" THEN listed ELSE Reverse(listed)
    IN [i \in 1..Len(names) |->
           [name |-> names[i][Len(names[i])],
            path |-> Append(cur_dir, names[i][Len(names[i])]),
            is_dir |-> IsDir(Append(cur_dir, names[i][Len(names[i])]))]]

-----------------------------------------------------------------------------
\* lib/fs.py

\* lib/counter.py: ids are dense, start at 0 and go up by one.
CounterFirst == 0
CounterGet(counter) == [value |-> counter, next |-> counter + 1]

EmptyFSData == [index |-> << >>, file_index |-> << >>, root |-> None]

\* dict[key] = value
DictSet(d, key, value) ==
    [k \in DOMAIN d \cup {key} |-> IF k = key THEN value ELSE d[k]]

\* dict.get(key, None)
DictGet(d, key) == IF key \in DOMAIN d THEN Some(d[key]) ELSE None

\* FSData.add_fs_entry / FSData._add_fs_entry.  file_index holds the entry
\* object; the entry is named here by its id.
AddFsEntry(fs, id, name, full_path, is_dir, parent) ==
    LET fs_entry == [id |-> id, name |-> name, full_path |-> full_path,
                     is_dir |-> is_dir, children |-> << >>]
        index1 == DictSet(fs.index, id, fs_entry)
        index2 == IF parent # None
                  THEN [index1 EXCEPT ![Val(parent)].children = Append(@, id)]
                  ELSE index1
    IN [fs EXCEPT !.index = index2,
                  !.file_index = DictSet(fs.file_index, full_path, id)]

\* FSScanner._entry_filter
EntryFilter(entry) ==
    /\ entry.is_dir \/ Lower(entry.name[Len(entry.name)]) \in FSFileExtensions
    /\ ~PathExcluded(entry.path)

\* FSScanner._walk_directory; st is the scanner: its fs_data and its counter.
RECURSIVE WalkEntries(_, _, _)
WalkEntries(entries, parent, st) ==
    IF entries = << >> THEN st
    ELSE LET entry == Head(entries) IN
         IF EntryFilter(entry)
         THEN LET c == CounterGet(st.counter)
                  st1 == [fs_data |-> AddFsEntry(st.fs_data, c.value, entry.name,
                                                 Realpath(entry.path), entry.is_dir,
                                                 parent),
                          counter |-> c.next]
                  st2 == IF entry.is_dir
                         THEN WalkEntries(ScanDir(entry.path), Some(c.value), st1)
                         ELSE st1
              IN WalkEntries(Tail(entries), parent, st2)
         ELSE WalkEntries(Tail(entries), parent, st)

WalkDirectory(cur_dir, parent, st) == WalkEntries(ScanDir(cur_dir), parent, st)

\* FSScanner.scan: the root entry, then the walk of base_dir, whose entries
\* get no parent (parent defaults to None).
ScanFS ==
    LET c == CounterGet(CounterFirst)
        fs0 == AddFsEntry(EmptyFSData, c.value, Dirname(BaseDir), Abspath(BaseDir),
                          TRUE, None)
        st0 == [fs_data |-> [fs0 EXCEPT !.root = Some(c.value)], counter |-> c.next]
    IN WalkDirectory(BaseDir, None, st0).fs_data

\* FSData.get_desc_ids: the ids of the descendants of id, id first, preorder.
\* Mutant: every id of the index, whatever the entry.
GetDescIdsWholeIndex(fs, id) ==
    [k \in 1..Cardinality(DOMAIN fs.index) |-> k - 1]

RECURSIVE GetDescIds(_, _)
GetDescIds(fs, id) ==
    LET RECURSIVE Over(_)
        Over(children) ==
            IF children = << >> THEN << >>
            ELSE GetDescIds(fs, Head(children)) \o Over(Tail(children))
    IN <<id>> \o Over(fs.index[id].children)

\* FSData.get_full_path_by_id
GetFullPathById(fs, id) == fs.index[id].full_path

-----------------------------------------------------------------------------
\* lib/puml.py: the binder.  puml_in.nodes maps a PumlNode id to its name,
\* variable and children; puml_nodes maps it to its fs_ids list (None until
\* the binder assigns one; a list the binder assigns is never empty).  A list of fs_groups is the very list object of a
\* node (fs_groups.append(node.fs_ids)), so a group is named by its node.

\* PumlParser.file_extensions
PumlFileExtensions == <<".c", ".cc", ".cpp", ".h", ".hpp">>

\* No exception; an exception is its kind and the PumlNode it is about.
NoError == [kind |-> "none", node |-> 0]

EmptyPumlData == [var_index |-> << >>, fs_groups |-> << >>, rules |-> << >>]

\* PumlParser._get_node_fs_ids: the ids found, or the exception raised.
GetNodeFsIds(fs, nodes_fs, node, parent) ==
    LET has_parent_ids == parent # None /\ nodes_fs[Val(parent)] # None
    IN IF has_parent_ids /\ Len(nodes_fs[Val(parent)]) # 1
       THEN [err |-> [kind |-> "TypeError", node |-> node], fs_ids |-> None]
       ELSE
       LET parent_dir == IF has_parent_ids
                         THEN GetFullPathById(fs, nodes_fs[Val(parent)][1])
                         ELSE BaseDir
           name == Val(puml_in.nodes[node].name)
           exts == << << >> >> \o [i \in 1..Len(PumlFileExtensions) |->
                                      << PumlFileExtensions[i] >>]
           Hit(ext) == DictGet(fs.file_index,
                               Abspath(Append(parent_dir, name \o ext))) # None
           hits == SelectSeq(exts, Hit)
           fs_ids == [i \in 1..Len(hits) |->
                         fs.file_index[Abspath(Append(parent_dir, name \o hits[i]))]]
       IN IF Len(fs_ids) = 0
          THEN [err |-> [kind |-> "Unbound", node |-> node], fs_ids |-> None]
          ELSE [err |-> NoError, fs_ids |-> fs_ids]

\* PumlParser._handle_node; st holds the nodes' fs_ids, puml_data and the
\* exception that ended the binding, if any.
HandleNode(fs, st, node, parent) ==
    IF puml_in.nodes[node].variable = None THEN st
    ELSE LET got == GetNodeFsIds(fs, st.fs_ids, node, parent) IN
         IF got.err # NoError THEN [st EXCEPT !.err = got.err]
         ELSE [st EXCEPT
                 !.data.var_index = DictSet(@, Val(puml_in.nodes[node].variable), node),
                 !.fs_ids[node] = got.fs_ids,
                 !.data.fs_groups = IF Len(got.fs_ids) > 1 THEN Append(@, node) ELSE @]

\* PumlParser._process_tree: the node, then its children, left to right.
RECURSIVE ProcessTree(_, _, _, _)
ProcessTree(fs, st, node, parent) ==
    LET RECURSIVE Over(_, _)
        Over(s, children) ==
            IF children = << >> \/ s.err # NoError THEN s
            ELSE Over(ProcessTree(fs, s, Head(children), Some(node)), Tail(children))
        st1 == HandleNode(fs, st, node, parent)
    IN Over(st1, puml_in.nodes[node].children)

\* PumlParser._get_desc_fs_ids: fs_ids is the node's own list, which the
\* two extend calls change in place; st.fs_ids[node] is the list returned.
RECURSIVE GetDescFsIds(_, _)
GetDescFsIds(st, node) ==
    LET RECURSIVE Over(_, _)
        Over(s, children) ==
            IF children = << >> \/ s.err # NoError THEN s
            ELSE LET child == Head(children) IN
                 IF s.fs_ids[child] = None \/ s.fs_ids[node] = None
                 THEN [s EXCEPT !.err = [kind |-> "TypeError", node |-> child]]
                 ELSE LET s1 == [s EXCEPT !.fs_ids[node] = @ \o s.fs_ids[child]]
                          s2 == GetDescFsIds(s1, child)
                      IN IF s2.err # NoError THEN s2
                         ELSE Over([s2 EXCEPT !.fs_ids[node] = @ \o s2.fs_ids[child]],
                                   Tail(children))
    IN Over(st, puml_in.nodes[node].children)

\* The rules of one relationship: the product of the two lists, row by row.
RuleProduct(src_ids, node_src, dst_ids, node_dst) ==
    [k \in 1..(Len(src_ids) * Len(dst_ids)) |->
        [src |-> [fs_id |-> src_ids[((k - 1) \div Len(dst_ids)) + 1],
                  puml_node |-> node_src],
         dst |-> [fs_id |-> dst_ids[((k - 1) % Len(dst_ids)) + 1],
                  puml_node |-> node_dst]]]

\* PumlParser._create_rules
RECURSIVE CreateRules(_, _)
CreateRules(st, puml_rels) ==
    IF puml_rels = << >> \/ st.err # NoError THEN st
    ELSE LET puml_rel == Head(puml_rels) IN
         IF puml_rel.src \notin DOMAIN st.data.var_index
            \/ puml_rel.dst \notin DOMAIN st.data.var_index
         THEN [st EXCEPT !.err = [kind |-> "KeyError", node |-> 0]]
         ELSE LET node_src == st.data.var_index[puml_rel.src]
                  node_dst == st.data.var_index[puml_rel.dst]
                  s1 == GetDescFsIds(st, node_src)
                  s2 == IF s1.err # NoError THEN s1 ELSE GetDescFsIds(s1, node_dst)
              IN IF s2.err # NoError THEN s2
                 ELSE CreateRules(
                        [s2 EXCEPT !.data.rules =
                            @ \o RuleProduct(s2.fs_ids[node_src], node_src,
                                             s2.fs_ids[node_dst], node_dst)],
                        Tail(puml_rels))

\* The list a group of fs_groups holds.
GroupList(nodes_fs, group) == nodes_fs[group]

-----------------------------------------------------------------------------
\* lib/code.py: the translation-unit parser.  A cursor is what the front-end
\* hands over: its kind value, the file of its location (a path as the
\* front-end spells it), whether the location is in a system header, its line,
\* the cursor it references, the file it includes, and its children.

\* The kind values of TUParser._cursor_kind_filter.
InclusionDirective == 503
RefKindFirst == 40
RefKindLast == 50
ExprKindFirst == 101
ExprKindLast == 103

\* The severity above which TUParser._print_diagnostics fails.
DiagFailAbove == 3

\* The severities of the front-end (clang.cindex.Diagnostic).
Severity == [Ignored |-> 0, Note |-> 1, Warning |-> 2, Error |-> 3, Fatal |-> 4]

\* CodeNode.__init__: file is the canonical path of the cursor's file.
CodeNode(cursor) ==
    [file |-> IF cursor.file = None THEN << Name("None") >>
              ELSE Realpath(Val(cursor.file)),
     line |-> cursor.line]

\* TUParser._cursor_skip
CursorSkip(cursor) == cursor.sys

\* TUParser._cursor_kind_filter
CursorKindFilter(cursor_kind) ==
    \/ InclusionDirective = cursor_kind
    \/ (RefKindFirst <= cursor_kind /\ cursor_kind <= RefKindLast)
    \/ (ExprKindFirst <= cursor_kind /\ cursor_kind <= ExprKindLast)

\* TUParser._cursor_filter: the two file names are compared as spelled.
\* A cursor without a file raises AttributeError, which _handle_cursor
\* catches: no edge either way.
CursorFilter(cursor) ==
    /\ cursor.referenced # None
    /\ ~Val(cursor.referenced).sys
    /\ Val(cursor.referenced).file # None
    /\ cursor.file # None
    /\ Val(cursor.file) # Val(Val(cursor.referenced).file)

\* TUParser._get_cursor_fs_id
GetCursorFsId(fs, node_path) == DictGet(fs.file_index, Abspath(node_path))

\* TUParser._create_code_dep: deps with the edge appended, or deps as it was
\* when the method returns early or raises (the exception is caught and
\* logged by _handle_cursor).
CreateCodeDep(fs, deps, cursor, dst_file) ==
    LET node_src == CodeNode(cursor)
        fs_id_src == GetCursorFsId(fs, node_src.file)
        by_ref == dst_file = None /\ cursor.referenced # None
    IN IF by_ref /\ Val(cursor.referenced).file = None THEN deps
       ELSE
       LET node_dst == IF by_ref THEN Some(CodeNode(Val(cursor.referenced))) ELSE None
           fs_id_dst == IF by_ref THEN GetCursorFsId(fs, Val(node_dst).file)
                        ELSE IF dst_file = None THEN None
                        ELSE GetCursorFsId(fs, Val(dst_file))
       IN IF ~by_ref /\ fs_id_dst = None THEN deps
          ELSE IF fs_id_src = None \/ fs_id_dst = None THEN deps
          ELSE Append(deps, [src |-> [fs_id |-> fs_id_src, code_node |-> Some(node_src)],
                             dst |-> [fs_id |-> fs_id_dst, code_node |-> node_dst]])

\* TUParser._handle_cursor: the children first, then the cursor itself.
RECURSIVE HandleCursor(_, _, _)
HandleCursor(fs, deps, cursor) ==
    LET RECURSIVE Over(_, _)
        Over(d, children) ==
            IF children = << >> THEN d
            ELSE Over(HandleCursor(fs, d, Head(children)), Tail(children))
    IN IF CursorSkip(cursor) THEN deps
       ELSE LET d1 == Over(deps, cursor.children) IN
            IF ~CursorKindFilter(cursor.kind) THEN d1
            ELSE IF cursor.kind = InclusionDirective
                 THEN IF cursor.included # None
                      THEN CreateCodeDep(fs, d1, cursor, cursor.included)
                      ELSE d1
            ELSE IF CursorFilter(cursor) THEN CreateCodeDep(fs, d1, cursor, None)
            ELSE d1

\* TUParser._print_diagnostics
PrintDiagnostics(diagnostics) ==
    \E i \in 1..Len(diagnostics) : diagnostics[i] > DiagFailAbove

\* TUParser.parse: a new parser (deps empty) per translation unit; the list
\* it returns, or the exit.
Parse(fs, tu) ==
    IF PrintDiagnostics(tu.diagnostics)
    THEN [err |-> [kind |-> "SystemExit", node |-> 0], deps |-> << >>]
    ELSE [err |-> NoError, deps |-> HandleCursor(fs, << >>, tu.cursor)]

\* CodeParser.get_deps: deps = [dep for deps in nested_deps for dep in deps]
RECURSIVE Flatten(_)
Flatten(nested) ==
    IF nested = << >> THEN << >> ELSE Head(nested) \o Flatten(Tail(nested))

-----------------------------------------------------------------------------
\* lib/arch.py: the matrices of ArchAnalyzer.analyze.  A matrix maps a pair
\* of fs ids to its entry.

Range(seq) == {seq[i] : i \in 1..Len(seq)}

\* The index pairs of an N x N matrix, N = len(fs_data.index).
MatrixPairs(fs) == (0..(Cardinality(DOMAIN fs.index) - 1))
                   \X (0..(Cardinality(DOMAIN fs.index) - 1))

\* Mutant: a rule clears its own pair only.
RulePairsNoDescendants(fs, rules) ==
    {p \in MatrixPairs(fs) :
        \E k \in 1..Len(rules) :
            p = <<rules[k].src.fs_id, rules[k].dst.fs_id>>}

\* The pairs the loop over puml_data.rules sets to 0: for every rule, the
\* descendants of its source id times the descendants of its destination id.
RulePairs(fs, rules) ==
    UNION {Range(GetDescIds(fs, rules[k].src.fs_id))
               \X Range(GetDescIds(fs, rules[k].dst.fs_id)) : k \in 1..Len(rules)}

\* Mutant: a pair of a group is cleared in one direction only.
GroupPairsOneWay(fs, nodes_fs, fs_groups) ==
    {p \in MatrixPairs(fs) :
        \E g \in 1..Len(fs_groups) :
            LET group == GroupList(nodes_fs, fs_groups[g]) IN
            \E a, b \in 1..Len(group) : a < b /\ p = <<group[a], group[b]>>}

\* The pairs the loop over puml_data.fs_groups sets to 0:
\* itertools.combinations(group, 2), both directions.
GroupPairs(fs, nodes_fs, fs_groups) ==
    {p \in MatrixPairs(fs) :
        \E g \in 1..Len(fs_groups) :
            LET group == GroupList(nodes_fs, fs_groups[g]) IN
            \E a, b \in 1..Len(group) :
                /\ a < b
                /\ p \in {<<group[a], group[b]>>, <<group[b], group[a]>>}}

\* rule_matrix: ones, then the two loops.
RuleMatrix(fs, rules, nodes_fs, fs_groups) ==
    LET zeroed == RulePairs(fs, rules) \cup GroupPairs(fs, nodes_fs, fs_groups)
    IN [p \in MatrixPairs(fs) |-> IF p \in zeroed THEN 0 ELSE 1]

\* The key of a CodeDep in dep_dict and dep_matrix.
DepKey(code_dep) == <<Val(code_dep.src.fs_id), Val(code_dep.dst.fs_id)>>

\* dep_dict: the CodeDeps of a pair, in the order of code_deps.
DepDict(deps) ==
    [p \in {DepKey(deps[i]) : i \in 1..Len(deps)} |->
        SelectSeq(deps, LAMBDA d : DepKey(d) = p)]

\* Mutant: the increment stands after the loop and counts the last CodeDep
\* alone.
DepMatrixOfLast(fs, deps) ==
    [p \in MatrixPairs(fs) |->
        IF deps # << >> /\ DepKey(deps[Len(deps)]) = p THEN 1 ELSE 0]

\* dep_matrix: zeros, then += 1 per CodeDep.
DepMatrix(fs, deps) ==
    [p \in MatrixPairs(fs) |-> Cardinality({i \in 1..Len(deps) : DepKey(deps[i]) = p})]

\* Mutant: the observed counts alone, whatever the rules.
ViolationsMatrixObserved(rule_matrix, dep_matrix) ==
    [p \in DOMAIN rule_matrix |-> dep_matrix[p]]

\* violations_matrix = rule_matrix * dep_matrix (element-wise).
ViolationsMatrix(rule_matrix, dep_matrix) ==
    [p \in DOMAIN rule_matrix |-> rule_matrix[p] * dep_matrix[p]]

\* Mutant: an entry counts only when it is above 1.
NonzeroAboveOne(fs, m) ==
    LET n == Cardinality(DOMAIN fs.index)
        pairs == [k \in 1..(n * n) |-> <<(k - 1) \div n, (k - 1) % n>>]
    IN SelectSeq(pairs, LAMBDA p : m[p] > 1)

\* numpy.transpose(numpy.nonzero(m)): the pairs of the non-zero entries,
\* row by row.
Nonzero(fs, m) ==
    LET n == Cardinality(DOMAIN fs.index)
        pairs == [k \in 1..(n * n) |-> <<(k - 1) \div n, (k - 1) % n>>]
    IN SelectSeq(pairs, LAMBDA p : m[p] # 0)

\* code_dep_violations: dep_dict[violation] of every violation, in a row.
RECURSIVE ExtendAll(_, _)
ExtendAll(dep_dict, violations) ==
    IF violations = << >> THEN << >>
    ELSE dep_dict[Head(violations)] \o ExtendAll(dep_dict, Tail(violations))

\* The code dependency that makes analyze exit(1).
HasNoneId(deps) ==
    \E i \in 1..Len(deps) : deps[i].src.fs_id = None \/ deps[i].dst.fs_id = None

EmptyArch == [rule_matrix |-> << >>, dep_dict |-> << >>, dep_matrix |-> << >>,
              violations_matrix |-> << >>, code_dep_violations |-> << >>]

\* ArchAnalyzer.analyze, from rule_matrix to code_dep_violations.
AnalyzeMatrices(fs, rules, nodes_fs, fs_groups, deps) ==
    LET rule_matrix == RuleMatrix(fs, rules, nodes_fs, fs_groups)
        dep_matrix == DepMatrix(fs, deps)
        dep_dict == DepDict(deps)
        violations_matrix == ViolationsMatrix(rule_matrix, dep_matrix)
    IN [rule_matrix |-> rule_matrix, dep_dict |-> dep_dict, dep_matrix |-> dep_matrix,
        violations_matrix |-> violations_matrix,
        code_dep_violations |-> ExtendAll(dep_dict, Nonzero(fs, violations_matrix))]

\* The line of violations_report.csv of a CodeDep: the two files.
ReportLine(dep) == <<Val(dep.src.code_node).file, Val(dep.dst.code_node).file>>

\* The first CodeDep whose line cannot be written (dep.dst.code_node is None
\* has no attribute file), or 0.
FirstUnwritable(deps) ==
    IF \E i \in 1..Len(deps) : deps[i].dst.code_node = None
    THEN CHOOSE i \in 1..Len(deps) :
            /\ deps[i].dst.code_node = None
            /\ \A j \in 1..(i - 1) : deps[j].dst.code_node # None
    ELSE 0

\* The write of reports/violations_report.csv: the lines written, up to the
\* CodeDep that raises.
ViolationsReport(deps) ==
    LET stop == FirstUnwritable(deps)
        n == IF stop = 0 THEN Len(deps) ELSE stop - 1
    IN [i \in 1..n |-> ReportLine(deps[i])]

\* Mutant: the root entry is left out of the table.
FileIndexReportBelowRoot(fs) ==
    [i \in 1..(Cardinality(DOMAIN fs.index) - 1) |-> <<i, fs.index[i].full_path>>]

\* The write of reports/file_index.csv: id and full_path of every entry of
\* fs_data.index, in insertion order.
FileIndexReport(fs) ==
    [i \in 1..Cardinality(DOMAIN fs.index) |-> <<i - 1, fs.index[i - 1].full_path>>]

NoReports == [violations_report |-> None, file_index |-> None]

-----------------------------------------------------------------------------
\* The inputs of a run and their bounds.

MaxDiskEntries == 4
MaxNodes == 3
MaxRels == 2
MaxCursors == 2
MaxTUs == 2
MaxDiags == 1
MaxRules == 1
MaxDeps == 2

\* The sequences over S of length at most n.
SeqsUpTo(S, n) == UNION {[1..k -> S] : k \in 0..n}

\* The directory trees of at most n entries under the base directory.
Disks(n) == {d \in SUBSET (WorldPaths \cup {BaseDir}) :
                IsDisk(d) /\ Cardinality(d) <= n + 1}

\* The tree the diagram and the translation units below are written for.
DiskMain == {BaseDir,
             BaseDir \o << Name("ui") >>,
             BaseDir \o << Name("ui"), NameExt("x", ".cpp") >>,
             BaseDir \o << Name("ui"), NameExt("z", ".cxx") >>,
             BaseDir \o << Name("core") >>,
             BaseDir \o << Name("core"), NameExt("y", ".h") >>,
             BaseDir \o << NameExt("a", ".cpp") >>,
             BaseDir \o << NameExt("a", ".h") >>}

\* A diagram as PumlTree.parse_puml returns it: node 0 is the root made of
\* the top-level tree node (no name, no variable); the other nodes are
\* numbered in the order the parser meets them (preorder).  A node named
\* "layer" stands for a package written without a variable.
NodeNames == {"ui", "core", "x", "z", "a", "layer"}

RECURSIVE AncestorsOrSelf(_, _)
AncestorsOrSelf(parent, n) ==
    IF n = 0 THEN {0} ELSE {n} \cup AncestorsOrSelf(parent, parent[n])

IsPreorder(parent) ==
    \A i \in DOMAIN parent :
        IF i = 1 THEN parent[i] = 0 ELSE parent[i] \in AncestorsOrSelf(parent, i - 1)

PumlTreeOf(names, parent) ==
    [n \in 0..Len(names) |->
        [name |-> IF n = 0 THEN None ELSE Some(Name(names[n])),
         variable |-> IF n = 0 \/ names[n] = "layer" THEN None ELSE Some(names[n]),
         children |-> SelectSeq([i \in 1..Len(names) |-> i], LAMBDA i : parent[i] = n)]]

PumlTrees(n) ==
    {PumlTreeOf(names, parent) :
        <<names, parent>> \in
            UNION {{np \in [1..k -> NodeNames] \X [1..k -> 0..(k - 1)] :
                        /\ \A i, j \in 1..k : i # j => np[1][i] # np[1][j]
                        /\ \A i \in 1..k : np[2][i] < i
                        /\ IsPreorder(np[2])} : k \in 0..n}}

VariablesOf(nodes) ==
    {Val(nodes[n].variable) : n \in {m \in DOMAIN nodes : nodes[m].variable # None}}

\* The place of a relationship in the order of the nodes it joins.
RelKey(nodes, rel) ==
    LET NodeOf(v) == CHOOSE n \in DOMAIN nodes : nodes[n].variable = Some(v)
    IN NodeOf(rel.src) * Cardinality(DOMAIN nodes) + NodeOf(rel.dst)

\* The lists of at most r relationships between variables of the diagram,
\* a relationship any number of times.  The rules of one relationship are
\* a product of two sets of ids and the matrix is zeroed rule by rule, so
\* each list stands for every order of its relationships.
PumlRels(nodes, r) ==
    {rels \in SeqsUpTo([src : VariablesOf(nodes), dst : VariablesOf(nodes)], r) :
        \A i \in 1..(Len(rels) - 1) :
            RelKey(nodes, rels[i]) <= RelKey(nodes, rels[i + 1])}

\* The diagrams of at most n nodes.
PumlInputs(n) == {[nodes |-> nodes, rels |-> << >>] : nodes \in PumlTrees(n)}

\* The diagram without nodes.
PumlEmpty == [nodes |-> PumlTreeOf(<< >>, << >>), rels |-> << >>]

\* The files the front-end names.
FileX == BaseDir \o << Name("ui"), NameExt("x", ".cpp") >>
FileXAlt == BaseDir \o << Name("core"), Dotdot, Name("ui"), NameExt("x", ".cpp") >>
FileY == BaseDir \o << Name("core"), NameExt("y", ".h") >>
FileA == BaseDir \o << NameExt("a", ".h") >>
FileSys == << Name("usr"), Name("include"), Name("vector") >>
FileOut == << Name("opt"), NameExt("gen", ".h") >>

Cursor(kind, file, referenced, included, children) ==
    [kind |-> kind, file |-> file, sys |-> file = Some(FileSys), line |-> 1,
     referenced |-> referenced, included |-> included, children |-> children]

Referenced(file) == Some([file |-> file, sys |-> file = Some(FileSys), line |-> 1])

\* Inclusion directives of x.cpp: the included file unresolved, in the tree,
\* x.cpp itself, a system header.
InclusionCursors ==
    {Cursor(InclusionDirective, Some(FileX), None, inc, << >>) :
        inc \in {None, Some(FileY), Some(FileX), Some(FileSys)}}

\* References in x.cpp: without a referenced cursor, to a cursor without
\* a file, to a file of the tree, to x.cpp under either spelling, to a
\* system header.
RefCursors ==
    {Cursor(RefKindFirst + 3, Some(FileX), ref, None, << >>) :
        ref \in {None, Referenced(None)}
                \cup {Referenced(Some(f)) : f \in {FileY, FileX, FileXAlt, FileSys}}}

\* Cursors at the ends of the kind ranges, and cursors located in a system
\* header and in a file outside the tree, all referencing y.h.
KindCursors ==
    {Cursor(k, Some(FileX), Referenced(Some(FileY)), None, << >>) :
        k \in {RefKindLast, RefKindLast + 1, ExprKindFirst - 1, ExprKindFirst}}
    \cup {Cursor(RefKindFirst, Some(f), Referenced(Some(FileY)), None, << >>) :
            f \in {FileSys, FileOut}}

\* A declaration (kind 8) with a reference to a.h inside, in x.cpp and in
\* a system header.
DeclCursors ==
    {Cursor(8, Some(f), None, None,
            << Cursor(RefKindFirst + 3, Some(FileX), Referenced(Some(FileA)), None, << >>) >>) :
        f \in {FileX, FileSys}}

Cursors == InclusionCursors \cup RefCursors \cup KindCursors \cup DeclCursors

\* A translation unit: its diagnostics and its root cursor (kind 350, no file).
TU(diagnostics, children) ==
    [diagnostics |-> diagnostics, cursor |-> Cursor(350, None, None, None, children)]

RECURSIVE TotalCursors(_)
TotalCursors(lists) ==
    IF lists = << >> THEN 0 ELSE Len(Head(lists)) + TotalCursors(Tail(lists))

\* The compilation databases of 1..t translation units without diagnostics
\* that hold at most c cursors together.
CompdbsOfCursors(t, c) ==
    {[i \in 1..Len(lists) |-> TU(<< >>, lists[i])] :
        lists \in {l \in UNION {[1..k -> SeqsUpTo(Cursors, c)] : k \in 1..t} :
                      TotalCursors(l) <= c}}

\* x.cpp includes y.h.
CursorXIncludesY == Cursor(InclusionDirective, Some(FileX), None, Some(FileY), << >>)
\* x.cpp references a declaration of a.h.
CursorXRefsA == Cursor(RefKindFirst + 3, Some(FileX), Referenced(Some(FileA)), None, << >>)

SeverityValues == {Severity.Ignored, Severity.Note, Severity.Warning,
                   Severity.Error, Severity.Fatal}

\* The compilation databases of 1..t translation units of one reference each,
\* with at most d diagnostics per unit.
CompdbsOfDiags(t, d) ==
    UNION {[1..k -> {TU(diags, << CursorXRefsA >>) : diags \in SeqsUpTo(SeverityValues, d)}]
           : k \in 1..t}

\* a.cpp references a declaration of a.h.
CursorARefsA ==
    Cursor(RefKindFirst + 3, Some(BaseDir \o << NameExt("a", ".cpp") >>),
           Referenced(Some(FileA)), None, << >>)

CompdbSmall == << TU(<< >>, << CursorXRefsA, CursorARefsA >>) >>

\* The compilation databases of 1..t translation units without diagnostics
\* that hold at most c references together, out of: x.cpp to a.h, a.cpp to
\* a.h.
CompdbsOfRefs(t, c) ==
    {[i \in 1..Len(lists) |-> TU(<< >>, lists[i])] :
        lists \in {l \in UNION {[1..k -> SeqsUpTo({CursorXRefsA, CursorARefsA}, c)]
                                 : k \in 1..t} :
                      TotalCursors(l) <= c}}

\* The diagram of the one component a, bound to a.cpp and a.h.
PumlGroupA == [nodes |-> PumlTreeOf(<< "a" >>, << 0 >>), rels |-> << >>]

\* The inputs of the matrix engine alone: a small tree, and any rules, groups
\* and CodeDeps over the ids of its index.
DiskArch == {BaseDir,
             BaseDir \o << Name("ui") >>,
             BaseDir \o << Name("ui"), NameExt("x", ".cpp") >>,
             BaseDir \o << NameExt("a", ".cpp") >>,
             BaseDir \o << NameExt("a", ".h") >>}

ArchRule(s, d) == [src |-> [fs_id |-> s, puml_node |-> 0],
                   dst |-> [fs_id |-> d, puml_node |-> 0]]

ArchDep(fs, p, line) ==
    [src |-> [fs_id |-> Some(p[1]),
              code_node |-> Some([file |-> GetFullPathById(fs, p[1]), line |-> line])],
     dst |-> [fs_id |-> Some(p[2]),
              code_node |-> Some([file |-> GetFullPathById(fs, p[2]), line |-> line])]]

\* The ids of ui, ui/x.cpp and a.cpp in the index of DiskArch.
ArchRuleIds == {1, 2, 3}

\* A rule joins two entries two diagram nodes can be bound to: a directory
\* with a file in it, a file in it, a file of a group.
ArchRules(fs, n) ==
    {[k \in 1..Len(ps) |-> ArchRule(ps[k][1], ps[k][2])] :
        ps \in SeqsUpTo({p \in MatrixPairs(fs) :
                            /\ p[1] # p[2]
                            /\ {p[1], p[2]} \subseteq ArchRuleIds}, n)}

\* A CodeDep joins the entries of two source files: a cursor lies in a file.
ArchDeps(fs, n) ==
    {[k \in 1..Len(ps) |-> ArchDep(fs, ps[k], k)] :
        ps \in SeqsUpTo({p \in MatrixPairs(fs) :
                            /\ p[1] # p[2]
                            /\ ~fs.index[p[1]].is_dir
                            /\ ~fs.index[p[2]].is_dir}, n)}

\* The ids of a.cpp and a.h in the index of DiskArch, bound to one node.
ArchGroupIds == << 3, 4 >>

\* No group, or the group of the one node bound to a.cpp and a.h.
ArchGroups == {<< >>, << 1 >>}

-----------------------------------------------------------------------------
\* The run.

\* FSScanner(base_dir).scan()
Scan ==
    /\ pc = "scan"
    /\ fs_data' = ScanFS
    /\ pc' = "process_tree"
    /\ UNCHANGED <<disk, order, puml_in, puml_nodes, puml_data, compdb, nested_deps,
                   code_deps, arch, reports, error>>

\* PumlParser.parse_puml, first half: self._process_tree(root)
ProcessTreeStep ==
    /\ pc = "process_tree"
    /\ LET st0 == [fs_ids |-> [n \in DOMAIN puml_in.nodes |-> None],
                   data |-> EmptyPumlData, err |-> NoError]
           st == ProcessTree(fs_data, st0, 0, None)
       IN /\ puml_nodes' = st.fs_ids
          /\ puml_data' = st.data
          /\ error' = st.err
          /\ pc' = IF st.err = NoError THEN "create_rules" ELSE "failed"
    /\ UNCHANGED <<disk, order, fs_data, puml_in, compdb, nested_deps, code_deps,
                   arch, reports>>

\* PumlParser.parse_puml, second half: self._create_rules(puml_rels).  The
\* relationships of the diagram are drawn here, where the run first reads
\* them, among the variables of the diagram.
CreateRulesStep ==
    /\ pc = "create_rules"
    /\ \E puml_rels \in PumlRels(puml_in.nodes, MaxRels) :
          LET st0 == [fs_ids |-> puml_nodes, data |-> puml_data, err |-> NoError]
              st == CreateRules(st0, puml_rels)
          IN /\ puml_in' = [puml_in EXCEPT !.rels = puml_rels]
             /\ puml_nodes' = st.fs_ids
             /\ puml_data' = st.data
             /\ error' = st.err
             /\ pc' = IF st.err = NoError THEN "get_deps" ELSE "failed"
    /\ UNCHANGED <<disk, order, fs_data, compdb, nested_deps, code_deps, arch, reports>>

\* One worker of CodeParser.get_deps: handle_comp_cmd on a translation unit.
ParseTU ==
    /\ pc = "get_deps"
    /\ \E i \in 1..Len(compdb) :
          /\ nested_deps[i] = None
          /\ LET got == Parse(fs_data, compdb[i]) IN
                /\ nested_deps' = [nested_deps EXCEPT ![i] = Some(got.deps)]
                /\ error' = got.err
                /\ pc' = IF got.err = NoError THEN "get_deps" ELSE "failed"
    /\ UNCHANGED <<disk, order, fs_data, puml_in, puml_nodes, puml_data, compdb,
                   code_deps, arch, reports>>

\* CodeParser.get_deps: every worker has returned; the lists are flattened
\* in the order of the compile commands.
GetDeps ==
    /\ pc = "get_deps"
    /\ \A i \in 1..Len(compdb) : nested_deps[i] # None
    /\ code_deps' = Flatten([i \in 1..Len(compdb) |-> Val(nested_deps[i])])
    /\ pc' = "analyze"
    /\ UNCHANGED <<disk, order, fs_data, puml_in, puml_nodes, puml_data, compdb,
                   nested_deps, arch, reports, error>>

\* ArchAnalyzer.analyze: the matrices and the violations.
Analyze ==
    /\ pc = "analyze"
    /\ arch' = IF HasNoneId(code_deps) THEN arch
               ELSE AnalyzeMatrices(fs_data, puml_data.rules, puml_nodes,
                                    puml_data.fs_groups, code_deps)
    /\ error' = IF HasNoneId(code_deps) THEN [kind |-> "SystemExit", node |-> 0]
                ELSE error
    /\ pc' = IF HasNoneId(code_deps) THEN "failed" ELSE "report"
    /\ UNCHANGED <<disk, order, fs_data, puml_in, puml_nodes, puml_data, compdb,
                   nested_deps, code_deps, reports>>

\* ArchAnalyzer.analyze: the two reports.
Report ==
    /\ pc = "report"
    /\ LET raised == FirstUnwritable(arch.code_dep_violations) # 0 IN
          /\ reports' = [violations_report |->
                             Some(ViolationsReport(arch.code_dep_violations)),
                         file_index |-> IF raised THEN None
                                        ELSE Some(FileIndexReport(fs_data))]
          /\ error' = IF raised THEN [kind |-> "AttributeError", node |-> 0] ELSE error
          /\ pc' = IF raised THEN "failed" ELSE "done"
    /\ UNCHANGED <<disk, order, fs_data, puml_in, puml_nodes, puml_data, compdb,
                   nested_deps, code_deps, arch>>

Next ==
    \/ Scan
    \/ ProcessTreeStep
    \/ CreateRulesStep
    \/ ParseTU
    \/ GetDeps
    \/ Analyze
    \/ Report

InitWith(disks, orders, pumls, compdbs) ==
    /\ pc = "scan"
    /\ disk \in disks
    /\ order \in orders
    /\ fs_data = EmptyFSData
    /\ puml_in \in pumls
    /\ puml_nodes = [n \in DOMAIN puml_in.nodes |-> None]
    /\ puml_data = EmptyPumlData
    /\ compdb \in compdbs
    /\ nested_deps = [i \in 1..Len(compdb) |-> None]
    /\ code_deps = << >>
    /\ arch = EmptyArch
    /\ reports = NoReports
    /\ error = NoError

\* Any tree, the diagram without nodes, one translation unit.
InitScan == InitWith(Disks(MaxDiskEntries), {"asc", "desc"}, {PumlEmpty}, {CompdbSmall})
\* Any diagram on the main tree.
InitPuml == InitWith({DiskMain}, {"asc"}, PumlInputs(MaxNodes), {CompdbSmall})
\* Any cursors on the main tree.
InitCode == InitWith({DiskMain}, {"asc"}, {PumlEmpty},
                     CompdbsOfCursors(MaxTUs, MaxCursors))
\* Any diagnostics on the main tree.
InitDiag == InitWith({DiskMain}, {"asc"}, {PumlEmpty}, CompdbsOfDiags(MaxTUs, MaxDiags))

Init == InitScan \/ InitPuml \/ InitCode \/ InitDiag

\* The matrix engine on any rules, groups and CodeDeps.
InitArch ==
    /\ pc = "analyze"
    /\ disk = DiskArch
    /\ order = "asc"
    /\ fs_data = ScanFS
    /\ puml_in = PumlEmpty
    /\ puml_nodes = [n \in 0..1 |-> IF n = 0 THEN None ELSE ArchGroupIds]
    /\ puml_data \in {[var_index |-> << >>, fs_groups |-> g, rules |-> r] :
                          g \in ArchGroups, r \in ArchRules(fs_data, MaxRules)}
    /\ compdb = << >>
    /\ nested_deps = << >>
    /\ code_deps \in ArchDeps(fs_data, MaxDeps)
    /\ arch = EmptyArch
    /\ reports = NoReports
    /\ error = NoError

\* The base directory without an eligible entry; the diagrams of at most one
\* node; no translation unit, one with two references, or one with
\* diagnostics.
InitEmpty == InitWith({{BaseDir}}, {"asc", "desc"}, PumlInputs(1),
                      {<< >>, CompdbSmall} \cup CompdbsOfDiags(1, MaxDiags))

\* Translation units of references on a tree with x.cpp, a.cpp and a.h,
\* without a diagram or with the diagram of one group.
InitOrder == InitWith({DiskArch}, {"asc"}, {PumlEmpty, PumlGroupA},
                      CompdbsOfRefs(MaxTUs, MaxCursors))

NextArch == Analyze \/ Report

Spec == Init /\ [][Next]_vars
SpecScan == InitScan /\ [][Next]_vars
SpecPuml == InitPuml /\ [][Next]_vars
SpecCode == InitCode /\ [][Next]_vars
SpecDiag == InitDiag /\ [][Next]_vars
SpecArch == InitArch /\ [][NextArch]_vars
SpecEmpty == InitEmpty /\ [][Next]_vars
SpecOrder == InitOrder /\ [][Next]_vars

-----------------------------------------------------------------------------
\* Properties.

\* The matrices have been built.
Analyzed == pc \in {"report", "done"} \/ (pc = "failed" /\ error.kind = "AttributeError")

\* The multiset of the elements of a sequence.
BagOfSeq(seq) == [x \in Range(seq) |-> Cardinality({i \in 1..Len(seq) : seq[i] = x})]

\* C1: for every pair of file ids (i, j) of the matrices analyze builds,
\* violation[i][j] > 0 if and only if allowed[i][j] = 1 and observed[i][j] > 0.
C1_ViolationIffDisallowedAndObserved ==
    Analyzed =>
        \A p \in MatrixPairs(fs_data) :
            (arch.violations_matrix[p] > 0)
                <=> (arch.rule_matrix[p] = 1 /\ arch.dep_matrix[p] > 0)

\* An analysis with a violation, an observed edge that a rule permits and a
\* disallowed pair that is not observed.
C1_Witness ==
    /\ Analyzed
    /\ \E p, q, r \in MatrixPairs(fs_data) :
          /\ arch.violations_matrix[p] > 0
          /\ arch.rule_matrix[q] = 0 /\ arch.dep_matrix[q] > 0
          /\ arch.rule_matrix[r] = 1 /\ arch.dep_matrix[r] = 0

\* C2: the CodeDeps analyze reports are, as a multiset, the CodeDeps of
\* code_deps whose pair (src.fs_id, dst.fs_id) has violation > 0: none of a
\* violating pair is left out, none of another pair is reported.
C2_ReportedAreDepsOfViolatingPairs ==
    Analyzed =>
        BagOfSeq(arch.code_dep_violations)
            = BagOfSeq(SelectSeq(code_deps,
                                 LAMBDA d : arch.violations_matrix[DepKey(d)] > 0))

\* An analysis that reports the CodeDep of a pair observed once and leaves out
\* the CodeDep of a permitted pair.
C2_Witness ==
    /\ Analyzed
    /\ Len(arch.code_dep_violations) = 1
    /\ Len(code_deps) = 2
    /\ \E i \in 1..Len(code_deps) : arch.violations_matrix[DepKey(code_deps[i])] = 0

\* The violation matrix of the configuration with AllowedRule(s, d) added.
ViolationsWithRule(s, d) ==
    AnalyzeMatrices(fs_data, Append(puml_data.rules, ArchRule(s, d)), puml_nodes,
                    puml_data.fs_groups, code_deps).violations_matrix

ReturnedDeps ==
    UNION {Range(Val(nested_deps[i])) : i \in {j \in 1..Len(nested_deps) :
                                                   nested_deps[j] # None}}

\* C3 as stated: every CodeDep the translation-unit parser appends has both
\* fs ids non-null and different from each other, also for an inclusion
\* directive that includes its own file and for a reference whose two file
\* names differ and resolve to one canonical path.
C3_Original ==
    \A dep \in ReturnedDeps :
        /\ dep.src.fs_id # None
        /\ dep.dst.fs_id # None
        /\ dep.src.fs_id # dep.dst.fs_id

\* C4 as stated: after the scan every entry of the index is reachable from
\* the root entry by child edges: get_desc_ids of the root id returns the id
\* of every indexed entry.
C4_Original ==
    pc # "scan" =>
        Range(GetDescIds(fs_data, Val(fs_data.root))) = DOMAIN fs_data.index

\* The report step has run.
Reported == pc = "done" \/ (pc = "failed" /\ error.kind = "AttributeError")

\* C5 as stated: for every violating CodeDep, also an inclusion edge without
\* a destination CodeNode, the report step writes one line with the source
\* file path and the destination file path, then writes file_index.csv, and
\* never fails.
C5_Original ==
    Reported =>
        /\ error = NoError
        /\ reports.violations_report # None
        /\ Len(Val(reports.violations_report)) = Len(arch.code_dep_violations)
        /\ \A i \in 1..Len(arch.code_dep_violations) :
              Val(reports.violations_report)[i] =
                  << GetFullPathById(fs_data, Val(arch.code_dep_violations[i].src.fs_id)),
                     GetFullPathById(fs_data, Val(arch.code_dep_violations[i].dst.fs_id)) >>
        /\ reports.file_index # None

\* C8 as stated: a translation unit with a diagnostic above the warning level
\* (error or fatal) aborts the run before the walk and returns no edge; with
\* every diagnostic at warning level or below the walk proceeds.
C8_Original ==
    \A i \in 1..Len(compdb) :
        nested_deps[i] # None =>
            IF \E d \in 1..Len(compdb[i].diagnostics) :
                   compdb[i].diagnostics[d] > Severity.Warning
            THEN pc = "failed" /\ Val(nested_deps[i]) = << >>
            ELSE Val(nested_deps[i]) = HandleCursor(fs_data, << >>, compdb[i].cursor)

\* The fs ids the binder gave every node: the lists as _process_tree left
\* them, before rule expansion.
BoundFsIds ==
    ProcessTree(fs_data,
                [fs_ids |-> [n \in DOMAIN puml_in.nodes |-> None],
                 data |-> EmptyPumlData, err |-> NoError],
                0, None).fs_ids

\* The node and its descendants in the diagram.
RECURSIVE DescNodes(_)
DescNodes(n) ==
    {n} \cup UNION {DescNodes(c) : c \in Range(puml_in.nodes[n].children)}

\* The descendant fs-id closure of a diagram node: its bound ids and those
\* of every descendant with bindings.
Closure(bound, n) == UNION {Range(bound[m]) : m \in DescNodes(n)}

\* The ids and their descendants in the filesystem index.
FsDescendants(ids) == UNION {Range(GetDescIds(fs_data, i)) : i \in ids}

\* The pairs of two distinct members of one FSGroup: of the ids of a node
\* bound to two or more.
GroupMemberPairs(bound) ==
    UNION {{p \in Range(bound[n]) \X Range(bound[n]) : p[1] # p[2]} :
              n \in {m \in DOMAIN puml_in.nodes : Len(bound[m]) >= 2}}

\* Without relationships and groups every entry is 1 and every observed edge
\* is a violation.
NothingAllowed(bound) ==
    (puml_in.rels = << >> /\ \A n \in DOMAIN puml_in.nodes : Len(bound[n]) < 2) =>
        /\ \A p \in MatrixPairs(fs_data) : arch.rule_matrix[p] = 1
        /\ \A i \in 1..Len(code_deps) :
              arch.violations_matrix[DepKey(code_deps[i])] > 0

\* C7 as stated: allowed[s][d] = 0 exactly for the pairs in the product of
\* the two diagram closures of some relationship and for two distinct members
\* of one FSGroup; every other entry is 1.
C7_Original ==
    Analyzed =>
        LET bound == BoundFsIds
            permitted ==
                UNION {Closure(bound, puml_data.var_index[puml_in.rels[k].src])
                           \X Closure(bound, puml_data.var_index[puml_in.rels[k].dst]) :
                       k \in 1..Len(puml_in.rels)}
                \cup GroupMemberPairs(bound)
        IN /\ \A p \in MatrixPairs(fs_data) :
                 (arch.rule_matrix[p] = 0) <=> (p \in permitted)
           /\ NothingAllowed(bound)

\* C7 amended: allowed[s][d] = 0 exactly for the pairs (s, d) with s in the
\* filesystem descendants of the source closure and d in the filesystem
\* descendants of the destination closure of some relationship, and for two
\* distinct members of one FSGroup; every other entry is 1, so without
\* relationships and groups every observed edge is a violation.
C7_AllowedIsFsDescendantsOfClosures ==
    Analyzed =>
        LET bound == BoundFsIds
            permitted ==
                UNION {FsDescendants(
                           Closure(bound, puml_data.var_index[puml_in.rels[k].src]))
                       \X FsDescendants(
                              Closure(bound, puml_data.var_index[puml_in.rels[k].dst])) :
                       k \in 1..Len(puml_in.rels)}
                \cup GroupMemberPairs(bound)
        IN /\ \A p \in MatrixPairs(fs_data) :
                 (arch.rule_matrix[p] = 0) <=> (p \in permitted)
           /\ NothingAllowed(bound)

\* A relationship from a package with a child component to a package bound
\* to a directory whose files the diagram does not name, next to a group.
C7_Witness ==
    /\ Analyzed
    /\ \E k \in 1..Len(puml_in.rels) :
          LET src == puml_data.var_index[puml_in.rels[k].src]
              dst == puml_data.var_index[puml_in.rels[k].dst]
          IN /\ puml_in.nodes[src].children # << >>
             /\ Closure(BoundFsIds, dst) # FsDescendants(Closure(BoundFsIds, dst))
    /\ GroupMemberPairs(BoundFsIds) # {}
    /\ \E p \in MatrixPairs(fs_data) : arch.rule_matrix[p] = 1

\* The parent of a node of the diagram.
ParentOf(n) == CHOOSE m \in DOMAIN puml_in.nodes : n \in Range(puml_in.nodes[m].children)

\* The directory a node is resolved in.
BaseOf(n) ==
    IF puml_nodes[ParentOf(n)] # None
    THEN GetFullPathById(fs_data, puml_nodes[ParentOf(n)][1])
    ELSE BaseDir

\* The indexed entries at base/name or base/name plus an extension of the
\* set the scanner indexes.
CandidateIds(n) ==
    LET name == Val(puml_in.nodes[n].name)
        paths == {Append(BaseOf(n), name)}
                 \cup {Append(BaseOf(n), name \o <<e>>) : e \in FSFileExtensions}
    IN {id \in DOMAIN fs_data.index : fs_data.index[id].full_path \in paths}

\* C9 as stated: a node with a variable is bound to exactly the indexed
\* entries at base/name or base/name plus one of .c .cc .cpp .cxx .h .hpp,
\* and the binding fails naming the node if and only if there is none.
C9_Original ==
    /\ pc = "create_rules" =>
          \A n \in DOMAIN puml_in.nodes :
              puml_in.nodes[n].variable # None => Range(puml_nodes[n]) = CandidateIds(n)
    /\ (pc = "failed" /\ error.kind = "Unbound") => CandidateIds(error.node) = {}

\* C10: for every diagram node bound to two or more fs ids and every two
\* distinct ids x, y bound to it, allowed[x][y] = 0 and allowed[y][x] = 0
\* whatever the relationships are, and no CodeDep between x and y is reported.
C10_GroupMembersAllowed ==
    Analyzed =>
        \A p \in GroupMemberPairs(BoundFsIds) :
            /\ arch.rule_matrix[p] = 0
            /\ arch.rule_matrix[<<p[2], p[1]>>] = 0
            /\ \A i \in 1..Len(arch.code_dep_violations) :
                  DepKey(arch.code_dep_violations[i]) \notin {p, <<p[2], p[1]>>}

\* A component bound to a source and a header with an observed edge between
\* the two, in a diagram with a relationship and a violation elsewhere.
C10_Witness ==
    /\ Analyzed
    /\ puml_in.rels # << >>
    /\ arch.code_dep_violations # << >>
    /\ \E p \in GroupMemberPairs(BoundFsIds) : arch.dep_matrix[p] > 0

\* C11 as stated: after the scan, for every entry e the scanner created,
\* index[e.id] is e and file_index[e.full_path] is e: no later entry takes
\* the place of an earlier one under the same id or the same canonical path,
\* also when two scanned directory entries resolve to one canonical path.
C11_Original ==
    pc # "scan" =>
        \A id \in DOMAIN fs_data.index :
            /\ fs_data.index[id].id = id
            /\ fs_data.index[id].full_path \in DOMAIN fs_data.file_index
            /\ fs_data.file_index[fs_data.index[id].full_path] = id

Perms(n) == {f \in [1..n -> 1..n] : \A i, j \in 1..n : f[i] = f[j] => i = j}

\* The files of the cursors of a tree of cursors, as CodeNode names them.
RECURSIVE CursorFiles(_)
CursorFiles(cursor) ==
    {CodeNode(cursor).file}
    \cup UNION {CursorFiles(cursor.children[i]) : i \in 1..Len(cursor.children)}

\* The analysis of the workers' lists concatenated in the order perm.
AnalyzedInOrder(perm) ==
    AnalyzeMatrices(fs_data, puml_data.rules, puml_nodes, puml_data.fs_groups,
                    Flatten([i \in 1..Len(compdb) |-> Val(nested_deps[perm[i]])]))

\* C13: whatever the order in which the workers' lists are completed and
\* concatenated, the observed matrix, the violation matrix and the multiset
\* of the reported CodeDeps are the same, and the list a worker returns holds
\* edges of its own translation unit only.
C13_OrderOfResultsIrrelevant ==
    /\ \A i \in 1..Len(compdb) :
          nested_deps[i] # None =>
              /\ Len(Val(nested_deps[i])) <= Len(compdb[i].cursor.children)
              /\ \A d \in Range(Val(nested_deps[i])) :
                    Val(d.src.code_node).file \in CursorFiles(compdb[i].cursor)
    /\ Analyzed =>
          \A perm \in Perms(Len(compdb)) :
              LET other == AnalyzedInOrder(perm) IN
              /\ other.dep_matrix = arch.dep_matrix
              /\ other.violations_matrix = arch.violations_matrix
              /\ BagOfSeq(other.code_dep_violations) = BagOfSeq(arch.code_dep_violations)

\* An analysis of two translation units with different edges, one of them
\* a violation and one permitted by a group, whose lists in the other order
\* give another list of CodeDeps.
C13_Witness ==
    /\ Analyzed
    /\ Len(compdb) >= 2
    /\ Val(nested_deps[1]) # Val(nested_deps[2])
    /\ Flatten(<< Val(nested_deps[2]), Val(nested_deps[1]) >>) # code_deps
    /\ arch.code_dep_violations # << >>
    /\ Len(arch.code_dep_violations) < Len(code_deps)

\* The nearest ancestor of a node that is bound, or the root when none is.
RECURSIVE NearestBound(_)
NearestBound(n) ==
    LET m == ParentOf(n) IN
    IF m = 0 \/ puml_nodes[m] # None THEN m ELSE NearestBound(m)

\* The base directory of C14: the full path of the single bound id of the
\* nearest bound ancestor when that is one directory entry, the global base
\* directory otherwise.
NearestBase(n) ==
    LET ids == puml_nodes[NearestBound(n)] IN
    IF ids # None /\ Len(ids) = 1 /\ fs_data.index[ids[1]].is_dir
    THEN GetFullPathById(fs_data, ids[1])
    ELSE BaseDir

\* The indexed entries at NearestBase/name or that plus an extension the
\* binder tries.
NearestIds(n) ==
    LET name == Val(puml_in.nodes[n].name)
        paths == {Append(NearestBase(n), name)}
                 \cup {Append(NearestBase(n), name \o << PumlFileExtensions[i] >>) :
                          i \in 1..Len(PumlFileExtensions)}
    IN {id \in DOMAIN fs_data.index : fs_data.index[id].full_path \in paths}

\* C14 as stated: a node is resolved in the directory of its nearest bound
\* ancestor when that is bound to one directory entry and in the global base
\* directory otherwise; the binder does not fail on a child of a node bound
\* to a file or to several ids.
C14_Original ==
    /\ pc = "create_rules" =>
          \A n \in DOMAIN puml_in.nodes :
              puml_in.nodes[n].variable # None => Range(puml_nodes[n]) = NearestIds(n)
    /\ (pc = "failed" /\ error.kind \in {"Unbound", "TypeError"}) =>
          /\ error.kind = "Unbound"
          /\ NearestIds(error.node) = {}

\* Rule expansion has run without an exception.
RulesCreated == pc \in {"get_deps", "analyze", "report", "done"}

\* C15 as stated: after _create_rules every node's fs_ids list and every
\* list of fs_groups hold the ids they held when binding finished.
C15_Original ==
    RulesCreated =>
        /\ puml_nodes = BoundFsIds
        /\ \A g \in 1..Len(puml_data.fs_groups) :
              GroupList(puml_nodes, puml_data.fs_groups[g])
                  = GroupList(BoundFsIds, puml_data.fs_groups[g])

====
